---- MODULE Spec2Model ----
(***************************************************************************)
(* The WebSocket real-time layer of the task-management demo: the          *)
(* connection registry (websokets/connection_manager.py), the message      *)
(* dispatcher (websokets/message_handler.py), the session endpoint         *)
(* (websokets/main.py) and the part of the service layer the dispatcher    *)
(* calls (shared/services).                                                *)
(*                                                                         *)
(* One asyncio task runs per connection.  A task runs without interruption *)
(* from one await to the next, so every action below is one such stretch:  *)
(* it resumes a session, runs its synchronous code and ends when the       *)
(* session is suspended in its next send_text / receive_text / accept.     *)
(* A send_text delivers its frame when it is issued.                       *)
(***************************************************************************)
EXTENDS Integers, Sequences, FiniteSets, TLC

\* ------------------------------------------------------------------ bounds
MaxConns == 3      \* WebSocket connection attempts
MaxMsgs  == 2      \* inbound frames over all connections
MaxEvents == 4     \* connection attempts and inbound frames together
MaxChanges == 2    \* registry changes while one send_personal_message is suspended

UserIds == {1, 2}   \* the users table: alice, bob (init_db.py)
Conns   == 1..MaxConns
Absent  == 0       \* a key that is missing from a payload / None

VARIABLES
  active_connections, \* ConnectionManager.active_connections (dict, insertion order)
  pc,                 \* per connection: where its websocket_endpoint task stands
  user_id,            \* per connection: local user_id of websocket_endpoint (0 = unbound)
  alive,              \* per connection: the peer still holds the socket open
  db_open,            \* per connection: db = SessionLocal() not yet closed
  bc,                 \* per connection: the manager.broadcast call it is suspended in
  tasks,              \* tasks table: id -> [project_id, status]
  comments,           \* comments table: id -> [task_id, author_id]
  nreq,               \* inbound frames received so far
  mon,                \* per connection: record of the work it is at or has just ended
  personal,           \* a manager.send_personal_message call (the endpoint makes none)
  snapshot            \* a list that manager.get_active_users() returned to a caller

vars == <<active_connections, pc, user_id, alive, db_open, bc, tasks, comments,
          nreq, mon, personal, snapshot>>

\* ---------------------------------------------------------------- helpers
Max(S) == CHOOSE x \in S : \A y \in S : y <= x
Min(S) == CHOOSE x \in S : \A y \in S : x <= y

Range(s) == {s[i] : i \in DOMAIN s}

\* ------------------------------------------------------- the registry dict
(* A Python dict keeps its entries in insertion order; `del` leaves a dead  *)
(* slot behind and a later insert appends.  An entry is                     *)
(* [key, conns, deleted]; the set object of an entry is known by the index  *)
(* of the entry.  (No resize compacts the entries within MaxConns inserts.) *)
LiveIdx(reg) == {i \in DOMAIN reg : ~reg[i].deleted}
HasKey(reg, u) == \E i \in LiveIdx(reg) : reg[i].key = u
IdxOf(reg, u) == CHOOSE i \in LiveIdx(reg) : reg[i].key = u
Keys(reg) == {reg[i].key : i \in LiveIdx(reg)}
Get(reg, u) == reg[IdxOf(reg, u)].conns
DictLen(reg) == Cardinality(LiveIdx(reg))

\* a connect that replaces the user's set instead of adding to it
connectOverwrites(reg, websocket, uid) ==
  IF HasKey(reg, uid)
  THEN [reg EXCEPT ![IdxOf(reg, uid)].conns = {websocket}]
  ELSE Append(reg, [key |-> uid, conns |-> {websocket}, deleted |-> FALSE])

\* ConnectionManager.connect, after websocket.accept() returned
connect(reg, websocket, uid) ==
  LET r1 == IF ~HasKey(reg, uid)
            THEN Append(reg, [key |-> uid, conns |-> {}, deleted |-> FALSE])
            ELSE reg
  IN [r1 EXCEPT ![IdxOf(r1, uid)].conns = @ \cup {websocket}]

\* a disconnect that drops the user's key whenever the user has one
disconnectDropsUser(reg, websocket, uid) ==
  IF HasKey(reg, uid)
  THEN [reg EXCEPT ![IdxOf(reg, uid)].conns = @ \ {websocket},
                   ![IdxOf(reg, uid)].deleted = TRUE]
  ELSE reg

\* a disconnect that leaves the key of an emptied set in place
disconnectNoPrune(reg, websocket, uid) ==
  IF HasKey(reg, uid)
  THEN [reg EXCEPT ![IdxOf(reg, uid)].conns = @ \ {websocket}]
  ELSE reg

\* ConnectionManager.disconnect
disconnect(reg, websocket, uid) ==
  IF HasKey(reg, uid)
  THEN LET i  == IdxOf(reg, uid)
           r1 == [reg EXCEPT ![i].conns = @ \ {websocket}]
       IN IF r1[i].conns = {}
          THEN [r1 EXCEPT ![i].deleted = TRUE]
          ELSE r1
  ELSE reg

\* ConnectionManager.get_active_users: list(self.active_connections.keys())
get_active_users(reg) ==
  LET live == SelectSeq(reg, LAMBDA e : ~e.deleted)
  IN [i \in 1..Len(live) |-> live[i].key]

(* The object get_active_users returns, as its caller holds it: a list     *)
(* of its own (view = FALSE: items are what it holds) or a view of the      *)
(* dict's keys (view = TRUE); `first` is what the caller read from it when   *)
(* it was returned.                                                         *)
NoList == [taken |-> FALSE, view |-> FALSE, items |-> <<>>, first |-> <<>>]

\* a get_active_users that returns the keys view of the dict
KeysViewOf(keys) == [taken |-> TRUE, view |-> TRUE, items |-> <<>>, first |-> keys]

\* list(...): a new list object holding the keys of the moment
ListOf(keys) == [taken |-> TRUE, view |-> FALSE, items |-> keys, first |-> keys]

\* what the holder of the object reads from it when the registry is reg
Reading(obj, reg) == IF obj.view THEN get_active_users(reg) ELSE obj.items

\* ConnectionManager.get_connection_count
RECURSIVE SumLen(_, _)
SumLen(reg, i) ==
  IF i = 0 THEN 0
  ELSE (IF reg[i].deleted THEN 0 ELSE Cardinality(reg[i].conns)) + SumLen(reg, i - 1)

get_connection_count(reg) == SumLen(reg, Len(reg))

\* ----------------------------------------------------------------- frames
(* An outbound frame: its type, the message of an error, the id of the     *)
(* record it is about, the user it names (created_by, updated_by,          *)
(* deleted_by, author_id, user_id), a list of user ids, a count, a set of  *)
(* listed record ids.                                                      *)
Frame(type, message, id, by, users, count, ids) ==
  [type |-> type, message |-> message, id |-> id, by |-> by,
   users |-> users, count |-> count, ids |-> ids]

Event(type, id, by) == Frame(type, "", id, by, <<>>, 0, {})
ErrorFrame(message) == Frame("error", message, 0, 0, <<>>, 0, {})
ListFrame(type, ids) == Frame(type, "", 0, 0, <<>>, 0, ids)
WelcomeFrame(uid, users, count) == Frame("connected", "", 0, uid, users, count, {})
DisconnectedFrame(uid, users) == Frame("user.disconnected", "", 0, uid, users, 0, {})
NoFrame == Frame("", "", 0, 0, <<>>, 0, {})

(* One send_text in the record of a session's work: the connection, the     *)
(* registry key it was found under (0: the session's own websocket, sent   *)
(* to directly), the frame, and whether the peer was there to get it.      *)
Sent(to, key, frame, ok) == [to |-> to, key |-> key, frame |-> frame, ok |-> ok]

\* ------------------------------------------------------------- exceptions
Exc(type, msg) == [type |-> type, msg |-> msg]
NoExc == Exc("", "")

(* What send_text raises on a connection whose peer is gone depends on the  *)
(* installed Starlette/uvicorn: WebSocketDisconnect, or another exception.  *)
SendFailures ==
  {Exc("WebSocketDisconnect", "str(WebSocketDisconnect)"),
   Exc("RuntimeError", "send on a closed connection")}

\* ------------------------------------------------ ConnectionManager.broadcast
(* The state of one manager.broadcast(message, exclude_user) call: the dict *)
(* iterator (di_pos: last entry index it yielded, di_used: len(dict) when   *)
(* it was made) and the iterator over the current user's set (si_idx: the   *)
(* entry owning the set, 0 = none; si_used: len(set) when it was made;      *)
(* si_todo: members of that moment not yet yielded; si_known: those members *)
(* and whatever was yielded since).                                         *)
NewBroadcast(frame, exclude) ==
  [frame |-> frame, exclude |-> exclude, started |-> FALSE,
   di_pos |-> 0, di_used |-> 0,
   si_idx |-> 0, si_used |-> 0, si_todo |-> {}, si_known |-> {}]

NoBroadcast == NewBroadcast(NoFrame, 0)

\* a broadcast that ignores exclude_user
SkipsUserNever(exclude, uid) == FALSE

\* `if exclude_user and user_id == exclude_user: continue`
SkipsUser(exclude, uid) == exclude # 0 /\ uid = exclude

(* The next thing the two nested for-loops do, as a set of outcomes (the    *)
(* order of a set's members is not fixed):                                  *)
(*   kind "send":  send_text(message) on connection `to`, found under `key` *)
(*   kind "raise": the iterator found its container resized (exc)           *)
(*   kind "done":  both loops are over                                      *)
Outcome(kind, to, key, b, exc) ==
  [kind |-> kind, to |-> to, key |-> key, b |-> b, exc |-> exc]

RECURSIVE DictNext(_, _), SetNext(_, _)
DictNext(reg, b) ==
  IF DictLen(reg) # b.di_used
  THEN {Outcome("raise", 0, 0, b,
                Exc("RuntimeError", "dictionary changed size during iteration"))}
  ELSE LET later == {i \in LiveIdx(reg) : i > b.di_pos}
       IN IF later = {}
          THEN {Outcome("done", 0, 0, b, NoExc)}
          ELSE LET i == Min(later)
               IN IF SkipsUser(b.exclude, reg[i].key)
                  THEN DictNext(reg, [b EXCEPT !.di_pos = i, !.si_idx = 0])
                  ELSE SetNext(reg, [b EXCEPT !.di_pos = i, !.si_idx = i,
                                              !.si_used = Cardinality(reg[i].conns),
                                              !.si_todo = reg[i].conns,
                                              !.si_known = reg[i].conns])

SetNext(reg, b) ==
  LET now == reg[b.si_idx].conns
  IN IF Cardinality(now) # b.si_used
     THEN {Outcome("raise", 0, 0, b,
                   Exc("RuntimeError", "Set changed size during iteration"))}
     ELSE LET must == b.si_todo \cap now       \* still to come
              may  == now \ b.si_known         \* added since: met or missed
              sends == {Outcome("send", x, reg[b.si_idx].key,
                                [b EXCEPT !.si_todo = must \ {x}, !.si_known = @ \cup {x}],
                                NoExc) : x \in must \cup may}
          IN IF must = {}
             THEN sends \cup DictNext(reg, [b EXCEPT !.si_idx = 0, !.si_used = 0,
                                                     !.si_todo = {}, !.si_known = {}])
             ELSE sends

broadcast(reg, b) ==
  IF ~b.started
  THEN DictNext(reg, [b EXCEPT !.started = TRUE, !.di_pos = 0, !.di_used = DictLen(reg)])
  ELSE IF b.si_idx # 0 THEN SetNext(reg, b) ELSE DictNext(reg, b)

\* ------------------------------------ ConnectionManager.send_personal_message
(* The state of one manager.send_personal_message(message, user_id) call:   *)
(* where it stands (at: "idle" not made, "sending" suspended in a           *)
(* send_text, "done" returned, "raised" left by an exception), its          *)
(* arguments, the iterator over the user's set (as in a broadcast), the     *)
(* sends in order (log), the connections registered under user_id when the  *)
(* call was made (found), the exception that left it, and the number of     *)
(* registry changes made by other tasks while it was suspended.             *)
NoCall ==
  [at |-> "idle", uid |-> 0, frame |-> NoFrame,
   si_idx |-> 0, si_used |-> 0, si_todo |-> {}, si_known |-> {},
   log |-> <<>>, found |-> {}, exc |-> NoExc, changes |-> 0]

\* `if user_id in self.active_connections:` and the iterator of the for-loop
NewCall(reg, frame, uid) ==
  IF HasKey(reg, uid)
  THEN [NoCall EXCEPT !.uid = uid, !.frame = frame, !.si_idx = IdxOf(reg, uid),
                      !.si_used = Cardinality(Get(reg, uid)),
                      !.si_todo = Get(reg, uid), !.si_known = Get(reg, uid),
                      !.found = Get(reg, uid)]
  ELSE [NoCall EXCEPT !.uid = uid, !.frame = frame]

(* The next thing the for-loop does, as a set of outcomes: "send" to a      *)
(* connection, "raise" (the set was resized), or "done".                     *)
send_personal_message(reg, p) ==
  IF p.si_idx = 0
  THEN {Outcome("done", 0, 0, p, NoExc)}
  ELSE LET now == reg[p.si_idx].conns
       IN IF Cardinality(now) # p.si_used
          THEN {Outcome("raise", 0, 0, p,
                        Exc("RuntimeError", "Set changed size during iteration"))}
          ELSE LET must == p.si_todo \cap now
                   may  == now \ p.si_known
                   sends == {Outcome("send", x, p.uid,
                                     [p EXCEPT !.si_todo = must \ {x},
                                               !.si_known = @ \cup {x}],
                                     NoExc) : x \in must \cup may}
               IN IF must = {} THEN sends \cup {Outcome("done", 0, 0, p, NoExc)}
                  ELSE sends

\* ------------------------------------------------------ the service layer
(* The tables the dispatcher reaches.  users: UserIds.  projects: project   *)
(* p is owned by user p.  The WebSocket API changes neither.                *)
ProjectIds == UserIds
OwnerOf(p) == p

\* str() of a fastapi HTTPException is "<status_code>: <detail>"
HTTPException(str) == Exc("HTTPException", str)
ValidationError(str) == Exc("ValidationError", str)

\* TaskService._user_can_access_task
user_can_access_task(tbl, id, uid) ==
  tbl[id].project_id \in ProjectIds /\ OwnerOf(tbl[id].project_id) = uid

\* SQLite gives a new row the largest rowid + 1
NewId(tbl) == IF DOMAIN tbl = {} THEN 1 ELSE Max(DOMAIN tbl) + 1

Insert(tbl, id, row) == [i \in DOMAIN tbl \cup {id} |-> IF i = id THEN row ELSE tbl[i]]
Remove(tbl, ids) == [i \in DOMAIN tbl \ ids |-> tbl[i]]

\* a create_task that returns a task it has not committed
create_taskNoCommit(tbl, data, uid) ==
  [exc |-> NoExc, id |-> NewId(tbl), tasks |-> tbl]

\* TaskService.create_task
create_task(tbl, data, uid) ==
  IF data.project_id \notin ProjectIds
  THEN [exc |-> HTTPException("404: Project not found"), tasks |-> tbl, id |-> 0]
  ELSE IF OwnerOf(data.project_id) # uid
  THEN [exc |-> HTTPException("403: Not authorized to create tasks in this project"),
        tasks |-> tbl, id |-> 0]
  ELSE [exc |-> NoExc, id |-> NewId(tbl),
        tasks |-> Insert(tbl, NewId(tbl),
                         [project_id |-> data.project_id,
                          status |-> IF data.status = "" THEN "todo" ELSE data.status])]

\* an update_task that returns a task whatever the id
update_taskUpserts(tbl, id, data, uid) ==
  [exc |-> NoExc, found |-> TRUE, tasks |-> tbl]

\* TaskService.update_task; found = FALSE is `return None`
update_task(tbl, id, data, uid) ==
  IF id \notin DOMAIN tbl
  THEN [exc |-> NoExc, found |-> FALSE, tasks |-> tbl]
  ELSE IF ~user_can_access_task(tbl, id, uid)
  THEN [exc |-> HTTPException("403: Not authorized to update this task"),
        found |-> FALSE, tasks |-> tbl]
  ELSE [exc |-> NoExc, found |-> TRUE,
        tasks |-> IF data.status = "" THEN tbl ELSE [tbl EXCEPT ![id].status = data.status]]

\* TaskService.delete_task; found = FALSE is `return False`
delete_task(tbl, id, uid) ==
  IF id \notin DOMAIN tbl
  THEN [exc |-> NoExc, found |-> FALSE, tasks |-> tbl]
  ELSE IF ~user_can_access_task(tbl, id, uid)
  THEN [exc |-> HTTPException("403: Not authorized to delete this task"),
        found |-> FALSE, tasks |-> tbl]
  ELSE [exc |-> NoExc, found |-> TRUE, tasks |-> Remove(tbl, {id})]

\* CommentService.create_comment
create_comment(tbl, ctbl, data, uid) ==
  IF data.task_id \notin DOMAIN tbl
  THEN [exc |-> HTTPException("404: Task not found"), comments |-> ctbl, id |-> 0]
  ELSE IF ~user_can_access_task(tbl, data.task_id, uid)
  THEN [exc |-> HTTPException("403: Not authorized to comment on this task"),
        comments |-> ctbl, id |-> 0]
  ELSE [exc |-> NoExc, id |-> NewId(ctbl),
        comments |-> Insert(ctbl, NewId(ctbl), [task_id |-> data.task_id, author_id |-> uid])]

\* TaskService.get_tasks(db, user_id)
get_tasks(tbl, uid) ==
  {i \in DOMAIN tbl : tbl[i].project_id \in {p \in ProjectIds : OwnerOf(p) = uid}}

\* ProjectService.get_user_projects
get_user_projects(uid) == {p \in ProjectIds : OwnerOf(p) = uid}

\* comments of a deleted task go with it (models.py: cascade="all, delete-orphan")
CascadeComments(ctbl, tbl2) ==
  Remove(ctbl, {i \in DOMAIN ctbl : ctbl[i].task_id \notin DOMAIN tbl2})

\* --------------------------------------------------------- inbound frames
Payload(id, title, project_id, status, text, task_id) ==
  [id |-> id, title |-> title, project_id |-> project_id, status |-> status,
   text |-> text, task_id |-> task_id]

EmptyPayload == Payload(Absent, "", Absent, "", "", Absent)

\* ids a client may name: those of rows there can be, and one of no row
SomeTaskIds == {1, 2, 3}
SomeProjectIds == {1, 2, 3}

Envelope(action, data) == [text |-> "object", action |-> action, data |-> data]
NoMsg == [text |-> "", action |-> "", data |-> EmptyPayload]

InboundFrames ==
  {[text |-> "garbage", action |-> "", data |-> EmptyPayload],     \* not JSON
   [text |-> "nonobject", action |-> "", data |-> EmptyPayload]}   \* JSON, not an object
  \cup {Envelope(a, EmptyPayload) :
          a \in {"ping", "task.list", "project.list", "bogus", "None"}}
  \cup {Envelope("task.create", [EmptyPayload EXCEPT !.title = "T", !.project_id = p]) :
          p \in {Absent} \cup SomeProjectIds}
  \cup {Envelope("task.create", [EmptyPayload EXCEPT !.project_id = 1])}
  \cup {Envelope("task.update", [EmptyPayload EXCEPT !.id = i, !.status = "done"]) :
          i \in {Absent} \cup SomeTaskIds}
  \cup {Envelope("task.delete", [EmptyPayload EXCEPT !.id = i]) :
          i \in {Absent} \cup SomeTaskIds}
  \cup {Envelope("comment.create", [EmptyPayload EXCEPT !.text = "x", !.task_id = i]) :
          i \in {Absent} \cup SomeTaskIds}
  \cup {Envelope("comment.create", [EmptyPayload EXCEPT !.task_id = 1])}

\* ------------------------------------------------------------ credentials
(* shared/auth.py is not among the sources at hand: decode_access_token     *)
(* returns the payload of a token it accepts and None otherwise.  A token   *)
(* is [valid, sub]: whether it decodes, and its "sub" claim (Absent: none). *)
Tokens ==
  {[valid |-> FALSE, sub |-> Absent], [valid |-> TRUE, sub |-> Absent]}
  \cup {[valid |-> TRUE, sub |-> u] : u \in UserIds \cup {3}}

NoToken == [valid |-> FALSE, sub |-> -1]
NoPayload == [sub |-> -1]
decode_access_token(token) == IF token.valid THEN [sub |-> token.sub] ELSE NoPayload

\* ------------------------------------------------- the record of the work
(* mon[c] describes the work session c is at, or has ended in the step just *)
(* taken (it is dropped at the next step of anyone): what began it (kind:   *)
(* "open", "frame", "disconnect"), the token or inbound frame, facts of the *)
(* moment it began (ids0: the task ids there were; existed, owned: the task *)
(* the frame names was there, was the requester's; uid: the session's     *)
(* user), the sends in                                                      *)
(* order (log), the connections a handler's broadcast found registered      *)
(* under other keys than the one it excludes when it began (targets), those *)
(* registered when the session had unregistered itself (remaining), the     *)
(* exception handle_message caught, the one that reached websocket_endpoint *)
(* (left), whether one left websocket_endpoint (escaped), and the code of   *)
(* websocket.close().                                                       *)
NoMon ==
  [kind |-> "", token |-> NoToken, frame |-> NoMsg, ids0 |-> {},
   existed |-> FALSE, owned |-> FALSE, uid |-> 0, log |-> <<>>,
   targets |-> {}, remaining |-> {}, caught |-> "", left |-> "",
   escaped |-> FALSE, close_code |-> 0]

Logged(m, to, key, frame, ok) == [m EXCEPT !.log = Append(@, Sent(to, key, frame, ok))]

InFlight(at) == at \in {"broadcast", "closing"}

Others(c) == [d \in Conns |-> IF d # c /\ InFlight(pc[d]) THEN mon[d] ELSE NoMon]

AllConns(reg) == UNION {reg[i].conns : i \in LiveIdx(reg)}
ConnsNotUnder(reg, u) == UNION {reg[i].conns : i \in {j \in LiveIdx(reg) : reg[j].key # u}}

(* Dead slots of the dict matter to a suspended iterator alone: they are    *)
(* dropped whenever no broadcast is under way.                              *)
Compact(reg) == SelectSeq(reg, LAMBDA e : ~e.deleted)

Settle(c, b, reg) ==
  IF ~b.started /\ \A d \in Conns \ {c} : ~bc[d].started THEN Compact(reg) ELSE reg

\* -------------------------------------------- how a session's stretch ends
(* Each operator below fixes the next value of the registry, of mon and of  *)
(* session c's pc, user_id, bc, db_open and alive, given the               *)
(* registry `reg` and the record `m` the stretch has produced so far, and   *)
(* `uid`, the session's local user_id.                                      *)

\* an endpoint whose db.close() follows the try statement instead of being
\* its finally clause: an exception that leaves the endpoint skips it
ClosedUnlessEscaped(c, reg, m) ==
  /\ active_connections' = Settle(c, NoBroadcast, reg)
  /\ pc' = [pc EXCEPT ![c] = "closed"]
  /\ user_id' = [user_id EXCEPT ![c] = 0]
  /\ bc' = [bc EXCEPT ![c] = NoBroadcast]
  /\ db_open' = [db_open EXCEPT ![c] = m.escaped]
  /\ alive' = [alive EXCEPT ![c] = FALSE]
  /\ mon' = [Others(c) EXCEPT ![c] = m]
  /\ UNCHANGED <<personal, snapshot>>

\* websocket_endpoint is left: `finally: db.close()`; its locals are gone and
\* the server drops the socket
Closed(c, reg, m) ==
  /\ active_connections' = Settle(c, NoBroadcast, reg)
  /\ pc' = [pc EXCEPT ![c] = "closed"]
  /\ user_id' = [user_id EXCEPT ![c] = 0]
  /\ bc' = [bc EXCEPT ![c] = NoBroadcast]
  /\ db_open' = [db_open EXCEPT ![c] = FALSE]
  /\ alive' = [alive EXCEPT ![c] = FALSE]
  /\ mon' = [Others(c) EXCEPT ![c] = m]
  /\ UNCHANGED <<personal, snapshot>>

\* the session is suspended: in receive_text (at = "recv"), or in a send_text
\* of the broadcast b of a handler ("broadcast") or of the endpoint ("closing")
Suspended(c, uid, at, b, reg, m) ==
  /\ active_connections' = Settle(c, b, reg)
  /\ pc' = [pc EXCEPT ![c] = at]
  /\ user_id' = [user_id EXCEPT ![c] = uid]
  /\ bc' = [bc EXCEPT ![c] = b]
  /\ mon' = [Others(c) EXCEPT ![c] = m]
  /\ UNCHANGED <<personal, snapshot>>
  /\ UNCHANGED <<db_open, alive>>

\* the manager.broadcast of `except WebSocketDisconnect:` (main.py 128-134);
\* whatever it raises leaves the endpoint through `finally`
DisconnectBroadcast(c, uid, b, reg, m) ==
  \E o \in broadcast(reg, b) :
    IF o.kind = "send"
    THEN IF alive[o.to]
         THEN Suspended(c, uid, "closing", o.b, reg, Logged(m, o.to, o.key, b.frame, TRUE))
         ELSE Closed(c, reg, [Logged(m, o.to, o.key, b.frame, FALSE) EXCEPT !.escaped = TRUE])
    ELSE IF o.kind = "done"
         THEN Closed(c, reg, m)
         ELSE Closed(c, reg, [m EXCEPT !.escaped = TRUE])

\* an exception reaches websocket_endpoint's except clauses (main.py 122-143)
EndpointCatch(c, uid, e, reg, m) ==
  LET reg2 == disconnect(reg, c, uid)
  IN IF e.type = "WebSocketDisconnect"
     THEN DisconnectBroadcast(
            c, uid, NewBroadcast(DisconnectedFrame(uid, get_active_users(reg2)), 0), reg2,
            [m EXCEPT !.left = e.type, !.remaining = AllConns(reg2)])
     ELSE Closed(c, reg2, [m EXCEPT !.left = e.type, !.remaining = AllConns(reg2)])

\* a handle_message whose except clause lets the exception go on
HandlerCatchReraises(c, e, m) ==
  EndpointCatch(c, user_id[c], e, active_connections, [m EXCEPT !.caught = e.type])

\* handle_message's `except Exception as e:` (message_handler.py 76-80)
HandlerCatch(c, e, m) ==
  LET m2 == [m EXCEPT !.caught = e.type]
  IN IF alive[c]
     THEN Suspended(c, user_id[c], "recv", NoBroadcast, active_connections,
                    Logged(m2, c, 0, ErrorFrame(e.msg), TRUE))
     ELSE \E e2 \in SendFailures :
            EndpointCatch(c, user_id[c], e2, active_connections,
                          Logged(m2, c, 0, ErrorFrame(e.msg), FALSE))

\* websocket.send_text(frame) inside a handler, then: return (b = NoBroadcast)
\* or go on to manager.broadcast (b)
Reply(c, frame, b, m) ==
  IF alive[c]
  THEN Suspended(c, user_id[c], IF b = NoBroadcast THEN "recv" ELSE "broadcast", b,
                 active_connections, Logged(m, c, 0, frame, TRUE))
  ELSE \E e \in SendFailures : HandlerCatch(c, e, Logged(m, c, 0, frame, FALSE))

\* a broadcast that takes a connection whose send failed out of the registry
\* and goes on
HandlerBroadcastPrunes(c, b, m) ==
  \E o \in broadcast(active_connections, b) :
    IF o.kind = "send"
    THEN Suspended(c, user_id[c], "broadcast", o.b,
                   IF alive[o.to] THEN active_connections
                   ELSE disconnect(active_connections, o.to, o.key),
                   Logged(m, o.to, o.key, b.frame, alive[o.to]))
    ELSE IF o.kind = "done"
         THEN Suspended(c, user_id[c], "recv", NoBroadcast, active_connections, m)
         ELSE HandlerCatch(c, o.exc, m)

\* a manager.broadcast called by a handler, inside handle_message's try
HandlerBroadcast(c, b, m) ==
  \E o \in broadcast(active_connections, b) :
    IF o.kind = "send"
    THEN IF alive[o.to]
         THEN Suspended(c, user_id[c], "broadcast", o.b, active_connections,
                        Logged(m, o.to, o.key, b.frame, TRUE))
         ELSE \E e \in SendFailures : HandlerCatch(c, e, Logged(m, o.to, o.key, b.frame, FALSE))
    ELSE IF o.kind = "done"
         THEN Suspended(c, user_id[c], "recv", NoBroadcast, active_connections, m)
         ELSE HandlerCatch(c, o.exc, m)

\* ------------------------------------------------------- MessageHandler
(* Each handler runs from the frame's receipt to the handler's first        *)
(* suspension; m is the record of the work begun by the frame.              *)
NoDbChange == UNCHANGED <<tasks, comments>>

\* a _handle_ping whose reply depends on who else is registered
handle_pingIfRegistered(c, m) ==
  /\ IF HasKey(active_connections, user_id[c]) /\ DictLen(active_connections) = 1
     THEN Reply(c, Event("pong", 0, 0), NoBroadcast, m)
     ELSE Reply(c, Event("pong", 0, user_id[c]), NoBroadcast, m)
  /\ NoDbChange

\* a _handle_ping that also broadcasts its pong
handle_pingBroadcasts(c, m) ==
  /\ Reply(c, Event("pong", 0, 0), NewBroadcast(Event("pong", 0, 0), 0), m)
  /\ NoDbChange

\* MessageHandler._handle_ping
handle_ping(c, m) ==
  /\ Reply(c, Event("pong", 0, 0), NoBroadcast, m)
  /\ NoDbChange

handle_task_list(c, m) ==
  /\ Reply(c, ListFrame("task.list", get_tasks(tasks, user_id[c])), NoBroadcast, m)
  /\ NoDbChange

handle_project_list(c, m) ==
  /\ Reply(c, ListFrame("project.list", get_user_projects(user_id[c])), NoBroadcast, m)
  /\ NoDbChange

handle_task_create(c, m, payload) ==
  IF payload.title = "" \/ payload.project_id = Absent
  THEN HandlerCatch(c, ValidationError("validation error for TaskCreate"), m) /\ NoDbChange
  ELSE LET res == create_task(tasks, payload, user_id[c])
       IN IF res.exc # NoExc
          THEN HandlerCatch(c, res.exc, m) /\ NoDbChange
          ELSE /\ tasks' = res.tasks
               /\ UNCHANGED comments
               /\ Reply(c, Event("task.created", res.id, 0),
                        NewBroadcast(Event("task.new", res.id, user_id[c]), user_id[c]), m)

handle_task_update(c, m, payload) ==
  IF payload.id = Absent
  THEN Reply(c, ErrorFrame("Task ID required"), NoBroadcast, m) /\ NoDbChange
  ELSE LET res == update_task(tasks, payload.id, payload, user_id[c])
       IN IF res.exc # NoExc
          THEN HandlerCatch(c, res.exc, m) /\ NoDbChange
          ELSE IF ~res.found
          THEN /\ Reply(c, ErrorFrame("Task not found or not authorized"), NoBroadcast, m)
               /\ NoDbChange
          ELSE /\ tasks' = res.tasks
               /\ UNCHANGED comments
               /\ Reply(c, Event("task.updated", payload.id, 0),
                        NewBroadcast(Event("task.changed", payload.id, user_id[c]),
                                     user_id[c]), m)

\* a _handle_task_delete without the `if not task_id` check
handle_task_deleteNoIdCheck(c, m, payload) ==
  LET res == delete_task(tasks, payload.id, user_id[c])
  IN IF res.exc # NoExc
     THEN HandlerCatch(c, res.exc, m) /\ NoDbChange
     ELSE IF ~res.found
     THEN /\ Reply(c, ErrorFrame("Task not found or not authorized"), NoBroadcast, m)
          /\ NoDbChange
     ELSE /\ tasks' = res.tasks
          /\ comments' = CascadeComments(comments, res.tasks)
          /\ Reply(c, Event("task.deleted", payload.id, 0),
                   NewBroadcast(Event("task.removed", payload.id, user_id[c]),
                                user_id[c]), m)

\* MessageHandler._handle_task_delete
handle_task_delete(c, m, payload) ==
  IF payload.id = Absent
  THEN Reply(c, ErrorFrame("Task ID required"), NoBroadcast, m) /\ NoDbChange
  ELSE LET res == delete_task(tasks, payload.id, user_id[c])
       IN IF res.exc # NoExc
          THEN HandlerCatch(c, res.exc, m) /\ NoDbChange
          ELSE IF ~res.found
          THEN /\ Reply(c, ErrorFrame("Task not found or not authorized"), NoBroadcast, m)
               /\ NoDbChange
          ELSE /\ tasks' = res.tasks
               /\ comments' = CascadeComments(comments, res.tasks)
               /\ Reply(c, Event("task.deleted", payload.id, 0),
                        NewBroadcast(Event("task.removed", payload.id, user_id[c]),
                                     user_id[c]), m)

handle_comment_create(c, m, payload) ==
  IF payload.text = "" \/ payload.task_id = Absent
  THEN HandlerCatch(c, ValidationError("validation error for CommentCreate"), m) /\ NoDbChange
  ELSE LET res == create_comment(tasks, comments, payload, user_id[c])
       IN IF res.exc # NoExc
          THEN HandlerCatch(c, res.exc, m) /\ NoDbChange
          ELSE /\ comments' = res.comments
               /\ UNCHANGED tasks
               /\ Reply(c, Event("comment.created", res.id, user_id[c]),
                        NewBroadcast(Event("comment.new", res.id, user_id[c]), user_id[c]), m)

\* an error message that does not name the action
UnknownActionUnnamed(action) == "Unknown action"

\* f"Unknown action: {action}"; a missing "action" key reads as None
UnknownAction(action) ==
  IF action = "None" THEN "Unknown action: None" ELSE "Unknown action: bogus"

\* MessageHandler.handle_message
handle_message(c, m, msg) ==
  IF msg.text = "garbage"
  THEN \* json.loads raises JSONDecodeError; a failing send leaves handle_message
       /\ IF alive[c]
          THEN Suspended(c, user_id[c], "recv", NoBroadcast, active_connections,
                         Logged(m, c, 0, ErrorFrame("Invalid JSON"), TRUE))
          ELSE \E e \in SendFailures :
                 EndpointCatch(c, user_id[c], e, active_connections,
                               Logged(m, c, 0, ErrorFrame("Invalid JSON"), FALSE))
       /\ NoDbChange
  ELSE IF msg.text = "nonobject"
  THEN \* data.get raises AttributeError
       /\ HandlerCatch(c, Exc("AttributeError", "object has no attribute 'get'"), m)
       /\ NoDbChange
  ELSE IF msg.action = "task.list" THEN handle_task_list(c, m)
  ELSE IF msg.action = "task.create" THEN handle_task_create(c, m, msg.data)
  ELSE IF msg.action = "task.update" THEN handle_task_update(c, m, msg.data)
  ELSE IF msg.action = "task.delete" THEN handle_task_delete(c, m, msg.data)
  ELSE IF msg.action = "project.list" THEN handle_project_list(c, m)
  ELSE IF msg.action = "comment.create" THEN handle_comment_create(c, m, msg.data)
  ELSE IF msg.action = "ping" THEN handle_ping(c, m)
  ELSE /\ Reply(c, ErrorFrame(UnknownAction(msg.action)), NoBroadcast, m)
       /\ NoDbChange

\* ------------------------------------------------- websocket_endpoint
AuthFailureCode == 4001

\* an endpoint that refuses no token
AcceptsAnyToken(token) == ""

\* the reason websocket_endpoint refuses a token with, "" if it does not
AuthFailure(token) ==
  LET payload == decode_access_token(token)
  IN IF payload = NoPayload THEN "Invalid token"
     ELSE IF payload.sub = Absent THEN "Invalid token payload"
     ELSE IF payload.sub \notin UserIds THEN "User not found"
     ELSE ""

\* connections are numbered in the order they are made
NextToOpen(c) == pc[c] = "new" /\ \A d \in Conns : d < c => pc[d] # "new"

\* there is room for one more connection attempt or inbound frame
Room == Cardinality({d \in Conns : pc[d] # "new"}) + nreq < MaxEvents

\* the records that outlive a step of somebody else
Kept == [d \in Conns |-> IF InFlight(pc[d]) THEN mon[d] ELSE NoMon]

\* a welcome made before the connection is registered
WelcomeBeforeConnect(reg, websocket, uid) ==
  WelcomeFrame(uid, get_active_users(reg), get_connection_count(reg))

\* manager.connect(websocket, user_id), then the welcome frame of that moment
WelcomeOf(reg, websocket, uid) ==
  LET reg2 == connect(reg, websocket, uid)
  IN WelcomeFrame(uid, get_active_users(reg2), get_connection_count(reg2))

\* a client connects with a token: websocket_endpoint up to its first
\* receive_text (or to its end)
Open(c) ==
  /\ NextToOpen(c)
  /\ Room
  /\ UNCHANGED <<tasks, comments, nreq>>
  /\ \E token \in Tokens :
       LET uid == decode_access_token(token).sub
           m == [NoMon EXCEPT !.kind = "open", !.token = token, !.uid = uid]
           reg == connect(active_connections, c, uid)
           welcome == WelcomeOf(active_connections, c, uid)
       IN IF AuthFailure(token) # ""
          THEN \* websocket.close(code=4001); if it raises, so does the except
               \* clause that reads user_id before it was bound
               \/ Closed(c, active_connections, [m EXCEPT !.close_code = AuthFailureCode])
               \/ /\ ~alive[c]
                  /\ Closed(c, active_connections,
                            [m EXCEPT !.left = "RuntimeError",
                                      !.escaped = AuthFailure(token) # "User not found"])
          ELSE IF alive[c]
          THEN Suspended(c, uid, "recv", NoBroadcast, reg, Logged(m, c, 0, welcome, TRUE))
          ELSE \* the peer is gone: accept() raises, or the welcome's send_text does
               \/ Closed(c, active_connections, [m EXCEPT !.left = "RuntimeError"])
               \/ \E e \in SendFailures :
                    EndpointCatch(c, uid, e, reg, Logged(m, c, 0, welcome, FALSE))

\* the peer closes its end, or the network does
PeerClose(c) ==
  /\ pc[c] # "closed"
  /\ pc[c] = "new" => NextToOpen(c)
  /\ alive[c]
  /\ alive' = [alive EXCEPT ![c] = FALSE]
  /\ mon' = Kept
  /\ UNCHANGED <<active_connections, pc, user_id, db_open, bc, tasks, comments, nreq,
                 personal, snapshot>>

\* receive_text returns a frame (sent before the peer went, if it has gone) and
\* handle_message runs to its first suspension
Receive(c) ==
  /\ pc[c] = "recv"
  /\ nreq < MaxMsgs
  /\ Room
  /\ nreq' = nreq + 1
  /\ \E msg \in InboundFrames :
       LET id == IF msg.action = "comment.create" THEN msg.data.task_id ELSE msg.data.id
           m == [NoMon EXCEPT !.kind = "frame", !.frame = msg, !.ids0 = DOMAIN tasks,
                              !.existed = id \in DOMAIN tasks,
                              !.owned = id \in DOMAIN tasks
                                        /\ user_can_access_task(tasks, id, user_id[c]),
                              !.uid = user_id[c]]
       IN handle_message(c, m, msg)

\* receive_text raises WebSocketDisconnect
Disconnect(c) ==
  /\ pc[c] = "recv"
  /\ ~alive[c]
  /\ UNCHANGED <<tasks, comments, nreq>>
  /\ EndpointCatch(c, user_id[c], Exc("WebSocketDisconnect", ""), active_connections,
                   [NoMon EXCEPT !.kind = "disconnect", !.uid = user_id[c]])

\* a handler's manager.broadcast resumes after a send_text (or begins)
BroadcastStep(c) ==
  /\ pc[c] = "broadcast"
  /\ UNCHANGED <<tasks, comments, nreq>>
  /\ HandlerBroadcast(c, bc[c],
       IF bc[c].started THEN mon[c]
       ELSE [mon[c] EXCEPT !.targets = ConnsNotUnder(active_connections, bc[c].exclude)])

\* the user.disconnected broadcast resumes after a send_text
ClosingStep(c) ==
  /\ pc[c] = "closing"
  /\ UNCHANGED <<tasks, comments, nreq>>
  /\ DisconnectBroadcast(c, user_id[c], bc[c], active_connections, mon[c])

\* ------------------------------------------------------------ the system
\* one task in each project
SeedTasks == [p \in ProjectIds |-> [project_id |-> p, status |-> "todo"]]

Init ==
  /\ active_connections = <<>>
  /\ pc = [c \in Conns |-> "new"]
  /\ user_id = [c \in Conns |-> 0]
  /\ alive = [c \in Conns |-> TRUE]
  /\ db_open = [c \in Conns |-> TRUE]
  /\ bc = [c \in Conns |-> NoBroadcast]
  /\ tasks = SeedTasks
  /\ comments = <<>>
  /\ nreq = 0
  /\ mon = [c \in Conns |-> NoMon]
  /\ personal = NoCall
  /\ snapshot = NoList

Next ==
  \E c \in Conns :
    \/ Open(c)
    \/ PeerClose(c)
    \/ Receive(c)
    \/ Disconnect(c)
    \/ BroadcastStep(c)
    \/ ClosingStep(c)

Spec == Init /\ [][Next]_vars

\* ------------------------------------- a caller of send_personal_message
(* websocket_endpoint and MessageHandler never call send_personal_message.  *)
(* Here one task calls it once, on a registry that sessions have filled     *)
(* (each connection registered under a user, or not at all; its peer there  *)
(* or gone), while sessions go on registering and unregistering.            *)
PersonalFrames == {ErrorFrame("note"), Event("task.new", 1, 1)}

RECURSIVE RegistryOf(_, _)
RegistryOf(who, n) ==
  IF n = 0 THEN <<>>
  ELSE IF who[n] = Absent THEN RegistryOf(who, n - 1)
  ELSE connect(RegistryOf(who, n - 1), n, who[n])

PersonalInit ==
  /\ \E who \in [Conns -> UserIds \cup {Absent}] :
       /\ active_connections = RegistryOf(who, MaxConns)
       /\ user_id = who
       /\ pc = [c \in Conns |-> IF who[c] = Absent THEN "new" ELSE "recv"]
  /\ alive \in [Conns -> BOOLEAN]
  /\ db_open = [c \in Conns |-> TRUE]
  /\ bc = [c \in Conns |-> NoBroadcast]
  /\ tasks = SeedTasks
  /\ comments = <<>>
  /\ nreq = 0
  /\ mon = [c \in Conns |-> NoMon]
  /\ personal = NoCall
  /\ snapshot = NoList

\* the call runs from p to its next suspension or to its end
PersonalRun(p) ==
  \E o \in send_personal_message(active_connections, p) :
    IF o.kind = "send"
    THEN IF alive[o.to]
         THEN personal' = [o.b EXCEPT !.at = "sending",
                                      !.log = Append(@, Sent(o.to, o.key, p.frame, TRUE))]
         ELSE \E e \in SendFailures :
                personal' = [o.b EXCEPT !.at = "raised", !.exc = e,
                                        !.log = Append(@, Sent(o.to, o.key, p.frame, FALSE))]
    ELSE IF o.kind = "done"
         THEN personal' = [p EXCEPT !.at = "done"]
         ELSE personal' = [p EXCEPT !.at = "raised", !.exc = o.exc]

\* a task calls manager.send_personal_message(frame, uid)
PersonalCall ==
  /\ personal.at = "idle"
  /\ \E uid \in UserIds \cup {Absent, 3}, frame \in PersonalFrames :
       PersonalRun(NewCall(active_connections, frame, uid))
  /\ UNCHANGED <<active_connections, pc, user_id, alive, db_open, bc, tasks, comments,
                 nreq, mon, snapshot>>

\* the call resumes after a send_text
PersonalStep ==
  /\ personal.at = "sending"
  /\ PersonalRun(personal)
  /\ UNCHANGED <<active_connections, pc, user_id, alive, db_open, bc, tasks, comments,
                 nreq, mon, snapshot>>

\* a task calls manager.get_active_users() and keeps what it returns
Snapshot ==
  /\ ~snapshot.taken
  /\ personal.at \in {"idle", "sending"}
  /\ snapshot' = ListOf(get_active_users(active_connections))
  /\ UNCHANGED <<active_connections, pc, user_id, alive, db_open, bc, tasks, comments,
                 nreq, mon, personal>>

\* while the call is suspended a session registers its connection ...
Register(c) ==
  /\ personal.at = "sending" /\ personal.changes < MaxChanges
  /\ pc[c] = "new" /\ alive[c]
  /\ \E uid \in UserIds :
       /\ active_connections' = connect(active_connections, c, uid)
       /\ user_id' = [user_id EXCEPT ![c] = uid]
  /\ pc' = [pc EXCEPT ![c] = "recv"]
  /\ personal' = [personal EXCEPT !.changes = @ + 1]
  /\ UNCHANGED <<alive, db_open, bc, tasks, comments, nreq, mon, snapshot>>

\* ... or a session whose peer has gone unregisters it ...
Unregister(c) ==
  /\ personal.at = "sending" /\ personal.changes < MaxChanges
  /\ pc[c] = "recv" /\ ~alive[c]
  /\ active_connections' = disconnect(active_connections, c, user_id[c])
  /\ pc' = [pc EXCEPT ![c] = "closed"]
  /\ user_id' = [user_id EXCEPT ![c] = 0]
  /\ db_open' = [db_open EXCEPT ![c] = FALSE]
  /\ personal' = [personal EXCEPT !.changes = @ + 1]
  /\ UNCHANGED <<alive, bc, tasks, comments, nreq, mon, snapshot>>

\* ... or a peer goes
Drop(c) ==
  /\ personal.at = "sending"
  /\ pc[c] = "recv" /\ alive[c]
  /\ alive' = [alive EXCEPT ![c] = FALSE]
  /\ UNCHANGED <<active_connections, pc, user_id, db_open, bc, tasks, comments, nreq,
                 mon, personal, snapshot>>

PersonalNext ==
  \/ PersonalCall
  \/ PersonalStep
  \/ Snapshot
  \/ \E c \in Conns : Register(c)
  \/ \E c \in Conns : Unregister(c)
  \/ \E c \in Conns : Drop(c)

PersonalSpec == PersonalInit /\ [][PersonalNext]_vars

\* ================================================================ claims
\* sessions that have registered and not yet unregistered
Registered == {c \in Conns : pc[c] \in {"recv", "broadcast"}}

\* the sends of a notification broadcast in a record, and its deliveries
Notifications(m) ==
  {i \in DOMAIN m.log : m.log[i].key # 0 /\ m.log[i].frame.type # "user.disconnected"}

Delivered(m, t) == \E i \in Notifications(m) : m.log[i].to = t /\ m.log[i].ok

\* session c has handled (or is handling) an inbound frame
Handling(c) == mon[c].kind = "frame"

\* ... and the handler's broadcast, if it began one, is over
Handled(c) == mon[c].kind = "frame" /\ pc[c] # "broadcast"

\* the connections a broadcast found at its start that are still registered
\* and still open
StillThere(c) == {t \in mon[c].targets \cap AllConns(active_connections) : alive[t]}

\* C1: no key of active_connections ever maps to an empty set (a user id is
\* a key exactly when it has a connection), and no key appears twice.
C1_NoEmptySet ==
  /\ \A i \in LiveIdx(active_connections) : active_connections[i].conns # {}
  /\ \A i, j \in LiveIdx(active_connections) :
       active_connections[i].key = active_connections[j].key => i = j

\* a user's last connection has been unregistered while another user stays
C1_Witness ==
  \E c \in Conns :
    /\ pc[c] = "closing"
    /\ user_id[c] \notin Keys(active_connections)
    /\ Keys(active_connections) # {}

\* C2: get_active_users() lists exactly the user ids with at least one
\* registered connection, each once, and get_connection_count() is the number
\* of registered connections.
C2_ActiveUsersAndCount ==
  /\ Range(get_active_users(active_connections)) = {user_id[c] : c \in Registered}
  /\ Len(get_active_users(active_connections))
       = Cardinality({user_id[c] : c \in Registered})
  /\ get_connection_count(active_connections) = Cardinality(Registered)

\* one user with two connections, a second user with one, after a disconnect
C2_Witness ==
  /\ \E c, d \in Registered : c # d /\ user_id[c] = user_id[d]
  /\ \E c \in Conns : pc[c] = "closed" /\ mon[c].kind = "disconnect"
  /\ get_connection_count(active_connections) = 2

\* C3 (as the specification states it): a broadcast that excludes user U
\* sends to no connection registered under U, and once it is over every
\* connection of another user that it found registered (and that is still
\* registered and open) has got the frame.
C3_ExcludeDeliversToAllOthers ==
  \A c \in Conns :
    Handling(c) =>
      /\ \A i \in Notifications(mon[c]) : mon[c].log[i].key # mon[c].uid
      /\ Handled(c) => \A t \in StillThere(c) : Delivered(mon[c], t)

\* C4 (as the specification states it): a valid task.create from A is
\* answered with task.created carrying the new id, then task.new with that id
\* and created_by = A goes to every connection of every other user and to
\* none of A's.
C4_CreateThenNotifyAll ==
  \A c \in Conns :
    LET m == mon[c]
        new == Max(m.ids0) + 1
    IN Handled(c) /\ alive[c] /\ m.frame.action = "task.create"
       /\ m.frame.data.title # "" /\ m.frame.data.project_id \in ProjectIds
       /\ OwnerOf(m.frame.data.project_id) = m.uid
       => /\ Len(m.log) >= 1
          /\ m.log[1] = Sent(c, 0, Event("task.created", new, 0), TRUE)
          /\ \A i \in Notifications(m) :
               /\ i > 1
               /\ m.log[i].frame = Event("task.new", new, m.uid)
               /\ m.log[i].key # m.uid
          /\ \A t \in StillThere(c) : Delivered(m, t)

\* the confirmation that goes with a notification
ConfirmationOf(type) ==
  CASE type = "task.new" -> "task.created"
    [] type = "task.changed" -> "task.updated"
    [] type = "task.removed" -> "task.deleted"
    [] type = "comment.new" -> "comment.created"
    [] OTHER -> ""

\* C5: every send of a notification comes after the delivery of the matching
\* confirmation to the requester, and never goes to a connection of the
\* requesting user.
C5_ConfirmationFirstNeverToSelf ==
  \A c \in Conns :
    Handling(c) =>
      \A i \in Notifications(mon[c]) :
        LET n == mon[c].log[i]
        IN /\ \E j \in 1..(i - 1) :
                LET r == mon[c].log[j]
                IN /\ r.to = c /\ r.key = 0 /\ r.ok
                   /\ r.frame.type = ConfirmationOf(n.frame.type)
                   /\ r.frame.id = n.frame.id
           /\ n.key # mon[c].uid
           /\ n.to # c
           /\ user_id[n.to] # mon[c].uid

\* a notification was delivered while the requester had a second connection
C5_Witness ==
  \E c \in Conns :
    /\ Handled(c) /\ pc[c] = "recv"
    /\ \E i \in Notifications(mon[c]) : mon[c].log[i].ok
    /\ \E d \in Registered : d # c /\ user_id[d] = mon[c].uid

\* session c has handled a task.update that names a task that is not there
UpdatesNoTask(c) ==
  /\ Handling(c)
  /\ mon[c].frame.action = "task.update"
  /\ mon[c].frame.data.id # Absent
  /\ ~mon[c].existed

\* C6: a task.update whose id names no task sends no notification and no
\* confirmation; with the requester's socket open it sends exactly one frame,
\* an error, to the requester.
C6_UpdateOfNoTaskOneError ==
  \A c \in Conns :
    UpdatesNoTask(c) =>
      /\ Notifications(mon[c]) = {}
      /\ \A i \in DOMAIN mon[c].log :
           mon[c].log[i].key = 0 =>
             mon[c].log[i].to = c /\ mon[c].log[i].frame.type = "error"
      /\ pc[c] = "recv" =>
           /\ Len(mon[c].log) = 1
           /\ mon[c].log[1].ok
           /\ DOMAIN tasks = mon[c].ids0

\* the error was delivered while a connection of another user was registered
C6_Witness ==
  \E c \in Conns :
    /\ UpdatesNoTask(c)
    /\ pc[c] = "recv"
    /\ \E d \in Registered : user_id[d] # mon[c].uid

\* C7 (as the specification states it): a task.update or task.delete of a
\* task of another user's project is answered with the one error frame
\* "Task not found or not authorized", and nothing is broadcast.
C7_ForbiddenLooksLikeMissing ==
  \A c \in Conns :
    /\ Handling(c)
    /\ mon[c].frame.action \in {"task.update", "task.delete"}
    /\ mon[c].existed /\ ~mon[c].owned
    /\ pc[c] = "recv"
    => mon[c].log = <<Sent(c, 0, ErrorFrame("Task not found or not authorized"), TRUE)>>

\* a token that does not decode, has no subject, or names no user
RefusedToken(token) == ~token.valid \/ token.sub = Absent \/ token.sub \notin UserIds

\* C8: a connection attempt whose token is refused ends the session at once:
\* it is never registered, no frame is sent to it, it never waits for a
\* frame; and the registry has keys of users only.
C8_RefusedNeverRegisters ==
  /\ Keys(active_connections) \subseteq UserIds
  /\ \A c \in Conns :
       mon[c].kind = "open" /\ RefusedToken(mon[c].token) =>
         /\ pc[c] = "closed"
         /\ c \notin AllConns(active_connections)
         /\ mon[c].log = <<>>
         /\ Keys(active_connections) = {user_id[d] : d \in Registered}

\* a token was refused with code 4001 while another session was registered
C8_Witness ==
  \E c \in Conns :
    /\ mon[c].kind = "open" /\ RefusedToken(mon[c].token)
    /\ mon[c].close_code = AuthFailureCode
    /\ Registered # {}

\* C9 (as the specification states it): a frame that is no envelope (not
\* JSON, or JSON that is no object) is answered with the one error frame
\* "Invalid JSON", and the session goes on waiting for frames, registered as
\* before.
C9_NoEnvelopeInvalidJSON ==
  \A c \in Conns :
    /\ Handling(c)
    /\ mon[c].frame.text \in {"garbage", "nonobject"}
    /\ alive[c]
    => /\ pc[c] = "recv"
       /\ mon[c].log = <<Sent(c, 0, ErrorFrame("Invalid JSON"), TRUE)>>
       /\ HasKey(active_connections, mon[c].uid)
       /\ c \in Get(active_connections, mon[c].uid)

\* C10 (as the specification states it): when a send of a handler's broadcast
\* has failed, every other connection the broadcast was to reach (and that is
\* still registered and open) has got the frame once the broadcast is over.
C10_SendFailureDoesNotAbort ==
  \A c \in Conns :
    /\ Handled(c)
    /\ \E i \in Notifications(mon[c]) : ~mon[c].log[i].ok
    => \A t \in StillThere(c) : Delivered(mon[c], t)

\* the sends of a broadcast (of a handler or of the endpoint) that failed
FailedSends(m) == {i \in DOMAIN m.log : m.log[i].key # 0 /\ ~m.log[i].ok}

\* C11 (as the specification states it): when a send of a broadcast fails,
\* the dead connection is taken out of the registry and the caller of
\* broadcast sees no exception.
C11_DeadEntryRemovedNoError ==
  \A c \in Conns :
    \A i \in FailedSends(mon[c]) :
      /\ mon[c].log[i].to \notin AllConns(active_connections)
      /\ mon[c].caught = ""
      /\ ~mon[c].escaped

\* str() of the RuntimeError of an iterator that found its container resized
IterationErrors ==
  {"dictionary changed size during iteration", "Set changed size during iteration"}

\* C12 (as the specification states it): no broadcast ever raises because
\* the registry changed while it was suspended: no handler reports such an
\* error, and a user.disconnected broadcast is left by an exception only
\* when one of its sends failed.
C12_BroadcastToleratesRegistryChange ==
  \A c \in Conns :
    /\ \A i \in DOMAIN mon[c].log : mon[c].log[i].frame.message \notin IterationErrors
    /\ mon[c].escaped /\ mon[c].left = "WebSocketDisconnect" =>
         \E i \in FailedSends(mon[c]) : mon[c].log[i].frame.type = "user.disconnected"

\* C13 (as the specification states it): when a notification could not be
\* delivered to another user's connection while A's frame was handled, A
\* (whose socket is open) is sent no error frame and A's session goes on.
C13_FaultOfOtherNotSeenByRequester ==
  \A c \in Conns :
    /\ Handling(c)
    /\ alive[c]
    /\ \E i \in Notifications(mon[c]) : ~mon[c].log[i].ok
    => /\ pc[c] \in {"recv", "broadcast"}
       /\ \A i \in DOMAIN mon[c].log : mon[c].log[i].frame.type # "error"

\* C14 (as the specification states it): a session that had reached the
\* receive loop and has ended is out of the registry, and every connection
\* that was registered when it left (and still is, and is open) has got
\* user.disconnected with its user id.
C14_LeavingUnregistersAndAnnounces ==
  \A c \in Conns :
    pc[c] = "closed" /\ mon[c].kind \in {"frame", "disconnect"} =>
      /\ c \notin AllConns(active_connections)
      /\ \A t \in mon[c].remaining \cap AllConns(active_connections) :
           alive[t] =>
             \E i \in DOMAIN mon[c].log :
               /\ mon[c].log[i].to = t /\ mon[c].log[i].ok
               /\ mon[c].log[i].frame.type = "user.disconnected"
               /\ mon[c].log[i].frame.by = mon[c].uid

\* C15: the db session of a connection is closed once its websocket_endpoint
\* has ended, whatever the way it ended.
C15_DbClosedOnEveryExit ==
  \A c \in Conns : pc[c] = "closed" => ~db_open[c]

\* an exception left the endpoint from inside its except WebSocketDisconnect
\* clause, and the db session is closed
C15_Witness ==
  \E c \in Conns :
    /\ pc[c] = "closed"
    /\ mon[c].escaped /\ mon[c].left = "WebSocketDisconnect"
    /\ ~db_open[c]

\* what the service called for the frame of record m raises, given the tables
\* (NoExc: nothing, or no service is called)
ServiceExc(m) ==
  LET f == m.frame
  IN CASE f.action = "task.create" /\ f.data.title # "" /\ f.data.project_id # Absent ->
            create_task(tasks, f.data, m.uid).exc
       [] f.action = "task.update" /\ f.data.id # Absent ->
            update_task(tasks, f.data.id, f.data, m.uid).exc
       [] f.action = "task.delete" /\ f.data.id # Absent ->
            delete_task(tasks, f.data.id, m.uid).exc
       [] f.action = "comment.create" /\ f.data.text # "" /\ f.data.task_id # Absent ->
            create_comment(tasks, comments, f.data, m.uid).exc
       [] OTHER -> NoExc

\* no send on the requester's own socket has failed
OwnSocketHeld(c) ==
  \A i \in DOMAIN mon[c].log : mon[c].log[i].to = c => mon[c].log[i].ok

\* C16: when handle_message has caught an exception of a service and no send
\* on the requester's socket fails, the one frame sent is the error frame with
\* str() of that exception, the session waits for the next frame and the
\* connection is still registered.
C16_ServiceExceptionBecomesError ==
  \A c \in Conns :
    Handling(c) /\ mon[c].caught = "HTTPException" /\ OwnSocketHeld(c) =>
      /\ pc[c] = "recv"
      /\ ServiceExc(mon[c]) # NoExc
      /\ mon[c].log = <<Sent(c, 0, ErrorFrame(ServiceExc(mon[c]).msg), TRUE)>>
      /\ HasKey(active_connections, mon[c].uid)
      /\ c \in Get(active_connections, mon[c].uid)
      /\ mon[c].left = ""

\* a comment on a task that is not there was refused with an error frame
C16_Witness ==
  \E c \in Conns :
    /\ Handling(c) /\ mon[c].caught = "HTTPException" /\ alive[c]
    /\ mon[c].frame.action = "comment.create"
    /\ pc[c] = "recv"
    /\ Len(mon[c].log) = 1

\* C17: the welcome frame is made after the connection was registered: it
\* names the connecting user among active_users and counts at least one
\* connection, and when it is delivered both are what the registry holds:
\* the users of the registered sessions and their number, this one included.
C17_WelcomeAfterRegistration ==
  \A c \in Conns :
    mon[c].kind = "open" /\ mon[c].log # <<>> =>
      LET w == mon[c].log[1].frame
      IN /\ w.type = "connected"
         /\ w.by = mon[c].uid
         /\ mon[c].uid \in Range(w.users)
         /\ w.count >= 1
         /\ pc[c] = "recv" =>
              /\ c \in Registered
              /\ c \in AllConns(active_connections)
              /\ w.users = get_active_users(active_connections)
              /\ Range(w.users) = {user_id[d] : d \in Registered}
              /\ w.count = Cardinality(Registered)

\* a second user was welcomed while the first was connected
C17_Witness ==
  \E c \in Conns :
    /\ mon[c].kind = "open" /\ pc[c] = "recv"
    /\ Len(mon[c].log) = 1 /\ mon[c].log[1].ok
    /\ mon[c].log[1].frame.count = 2
    /\ Len(mon[c].log[1].frame.users) = 2

\* the types of the confirmations of the mutating actions
Confirmations == {"task.created", "task.updated", "task.deleted", "comment.created"}

\* C18 (as the specification states it): once a mutating action is handled,
\* its confirmation has been delivered to every open connection registered
\* for the requesting user (those registered since before the requester's
\* own connection, to leave out the ones that came after the confirmation).
C18_ConfirmationToAllOfRequester ==
  \A c \in Conns :
    Handled(c) /\ pc[c] = "recv" =>
      \A i \in DOMAIN mon[c].log :
        mon[c].log[i].frame.type \in Confirmations =>
          \A d \in Registered :
            d < c /\ user_id[d] = mon[c].uid /\ alive[d] =>
              \E j \in DOMAIN mon[c].log :
                /\ mon[c].log[j].to = d /\ mon[c].log[j].ok
                /\ mon[c].log[j].frame = mon[c].log[i].frame

\* record m is of a task.update or task.delete frame without an id
LacksId(m) ==
  /\ m.kind = "frame"
  /\ m.frame.action \in {"task.update", "task.delete"}
  /\ m.frame.data.id = Absent

\* what is sent for such a frame: no notification, nothing but error frames
\* to the requester, and (its socket open) the one error "Task ID required"
NoIdAnswer ==
  \A c \in Conns :
    LacksId(mon[c]) =>
      /\ Notifications(mon[c]) = {}
      /\ \A i \in DOMAIN mon[c].log :
           mon[c].log[i].key = 0 =>
             mon[c].log[i].to = c /\ mon[c].log[i].frame.type = "error"
      /\ pc[c] = "recv" =>
           mon[c].log = <<Sent(c, 0, ErrorFrame("Task ID required"), TRUE)>>

\* the step that receives and handles such a frame leaves the tables alone
NoIdStep ==
  \A c \in Conns :
    pc[c] = "recv" /\ LacksId(mon'[c]) /\ nreq' = nreq + 1 =>
      tasks' = tasks /\ comments' = comments

\* C19: a task.update or task.delete without an id is answered with the error
\* "Task ID required" alone, changes no task and no comment, and nothing is
\* broadcast.
C19_NoIdRequiredError == [](NoIdAnswer) /\ [][NoIdStep]_vars

\* the error was delivered while a connection of another user was registered
C19_Witness ==
  \E c \in Conns :
    /\ LacksId(mon[c]) /\ pc[c] = "recv"
    /\ mon[c].frame.action = "task.delete"
    /\ \E d \in Registered : user_id[d] # mon[c].uid

\* every notification in a record follows the delivered confirmation of the
\* same mutation and no error frame, and goes to each connection once
NotifiedAfterConfirmedOnce ==
  \A c \in Conns :
    Handling(c) =>
      /\ \A i \in Notifications(mon[c]) :
           /\ \E j \in 1..(i - 1) :
                /\ mon[c].log[j].key = 0 /\ mon[c].log[j].ok
                /\ mon[c].log[j].frame.type = ConfirmationOf(mon[c].log[i].frame.type)
                /\ mon[c].log[j].frame.id = mon[c].log[i].frame.id
           /\ \A j \in 1..(i - 1) : mon[c].log[j].frame.type # "error"
      /\ \A i, j \in Notifications(mon[c]) :
           mon[c].log[i].to = mon[c].log[j].to => i = j

\* the mutation a confirmation frame tells of is in the tables t2, c2 and was
\* not in t1, c1
Committed(m, t1, c1, t2, c2) ==
  LET f == m.log[1].frame
      d == m.frame.data
  IN CASE f.type = "task.created" ->
            /\ f.id \in DOMAIN t2 \ DOMAIN t1
            /\ t2[f.id].project_id = d.project_id
       [] f.type = "task.updated" ->
            /\ f.id = d.id /\ f.id \in DOMAIN t2
            /\ d.status # "" => t2[f.id].status = d.status
       [] f.type = "task.deleted" ->
            /\ f.id = d.id
            /\ f.id \in DOMAIN t1 \ DOMAIN t2
       [] f.type = "comment.created" ->
            /\ f.id \in DOMAIN c2 \ DOMAIN c1
            /\ c2[f.id].task_id = d.task_id
       [] OTHER -> FALSE

\* the step that handles a frame and sends a confirmation has committed
ConfirmedIsCommitted ==
  \A c \in Conns :
    /\ pc[c] = "recv" /\ nreq' = nreq + 1
    /\ mon'[c].kind = "frame" /\ mon'[c].log # <<>>
    /\ mon'[c].log[1].frame.type \in Confirmations
    => Committed(mon'[c], tasks, comments, tasks', comments')

\* C20: a notification is sent only after its mutation was committed (the
\* confirmation it follows is sent by a step that has committed), never for
\* a mutation that was rejected, and at most once to a connection.
C20_NotifyOnlyCommittedOnce == [](NotifiedAfterConfirmedOnce) /\ [][ConfirmedIsCommitted]_vars

\* the notification of a deletion was delivered to two connections
C20_Witness ==
  \E c \in Conns :
    /\ Handled(c)
    /\ Cardinality({i \in Notifications(mon[c]) :
                      mon[c].log[i].ok /\ mon[c].log[i].frame.type = "task.removed"}) = 2

\* the read-only actions and the type of the reply to each
ReadOnlyActions == {"ping", "task.list", "project.list"}

ReplyTypeOf(action) == IF action = "ping" THEN "pong" ELSE action

\* C21: handling ping, task.list or project.list sends on the requester's
\* socket alone (nothing is broadcast by the handler); with that socket open
\* the one frame sent is the reply and the session waits for the next frame.
\* (user.disconnected, sent when the session ends because the requester's
\* peer has gone, is the endpoint's frame.)
C21_ReadOnlyUnicastOnly ==
  \A c \in Conns :
    Handling(c) /\ mon[c].frame.action \in ReadOnlyActions =>
      /\ Notifications(mon[c]) = {}
      /\ \A i \in DOMAIN mon[c].log :
           mon[c].log[i].frame.type # "user.disconnected" =>
             mon[c].log[i].to = c /\ mon[c].log[i].key = 0
      /\ mon[c].left = "" => \A i \in DOMAIN mon[c].log : mon[c].log[i].to = c
      /\ OwnSocketHeld(c) =>
           /\ pc[c] = "recv"
           /\ Len(mon[c].log) = 1
           /\ mon[c].log[1].ok
           /\ mon[c].log[1].frame.type = ReplyTypeOf(mon[c].frame.action)

\* a read-only action was answered while another user's connection was
\* registered and open
C21_Witness ==
  \E c \in Conns :
    /\ Handling(c) /\ mon[c].frame.action \in ReadOnlyActions
    /\ pc[c] = "recv" /\ Len(mon[c].log) = 1 /\ mon[c].log[1].ok
    /\ \E d \in Registered : user_id[d] # mon[c].uid /\ alive[d]

\* record m is of an envelope whose action is in no branch of handle_message
NotInTable(m) ==
  /\ m.kind = "frame"
  /\ m.frame.text = "object"
  /\ m.frame.action = "bogus"

\* what is sent for such a frame: nothing is broadcast, nothing but error
\* frames goes to the requester, and (its socket open) the one error naming
\* the action; the session waits for the next frame, registered as before
UnknownActionAnswer ==
  \A c \in Conns :
    NotInTable(mon[c]) =>
      /\ Notifications(mon[c]) = {}
      /\ \A i \in DOMAIN mon[c].log :
           mon[c].log[i].key = 0 =>
             mon[c].log[i].to = c /\ mon[c].log[i].frame.type = "error"
      /\ OwnSocketHeld(c) =>
           /\ mon[c].log = <<Sent(c, 0, ErrorFrame("Unknown action: bogus"), TRUE)>>
           /\ pc[c] = "recv"
           /\ mon[c].caught = "" /\ mon[c].left = ""
           /\ HasKey(active_connections, mon[c].uid)
           /\ c \in Get(active_connections, mon[c].uid)

\* the step that receives and handles such a frame leaves the tables alone
UnknownActionStep ==
  \A c \in Conns :
    pc[c] = "recv" /\ NotInTable(mon'[c]) /\ nreq' = nreq + 1 =>
      tasks' = tasks /\ comments' = comments

\* C22: a frame whose action is in no branch of handle_message is answered
\* with the one error "Unknown action: <action>" on the requester's socket,
\* changes no table, nothing is broadcast, and the connection stays open and
\* registered.
C22_UnknownActionError == [](UnknownActionAnswer) /\ [][UnknownActionStep]_vars

\* the error was delivered while a connection of another user was registered
C22_Witness ==
  \E c \in Conns :
    /\ NotInTable(mon[c]) /\ pc[c] = "recv"
    /\ Len(mon[c].log) = 1 /\ mon[c].log[1].ok
    /\ \E d \in Registered : user_id[d] # mon[c].uid /\ alive[d]

\* record m is of an envelope without an "action" key
LacksAction(m) ==
  /\ m.kind = "frame"
  /\ m.frame.text = "object"
  /\ m.frame.action = "None"

\* C23 (as the specification states it): an envelope without an action key
\* is refused by decoding, so it is answered as a decode failure is, with the
\* one error frame "Invalid JSON", and reaches no branch of the routing.
C23_MissingActionIsDecodeError ==
  \A c \in Conns :
    LacksAction(mon[c]) /\ OwnSocketHeld(c) =>
      mon[c].log = <<Sent(c, 0, ErrorFrame("Invalid JSON"), TRUE)>>

\* C24: a ping on a session whose socket is open is answered with exactly
\* the frame {"type": "pong"} on that connection, whoever the user is and
\* whatever the registry and the tables hold; nothing else is sent, and the
\* session waits for the next frame.
C24_PingYieldsPong ==
  \A c \in Conns :
    Handling(c) /\ mon[c].frame.action = "ping" /\ OwnSocketHeld(c) =>
      /\ mon[c].log = <<Sent(c, 0, Event("pong", 0, 0), TRUE)>>
      /\ pc[c] = "recv"
      /\ mon[c].caught = "" /\ mon[c].left = ""

\* the second user's ping was answered after the tasks table had changed,
\* with another user's connection registered
C24_Witness ==
  \E c \in Conns :
    /\ Handling(c) /\ mon[c].frame.action = "ping" /\ pc[c] = "recv"
    /\ mon[c].uid = 2
    /\ tasks # SeedTasks
    /\ DictLen(active_connections) = 2

\* user ids disconnect may be called with: the users, none, one of no user
SomeUserIds == UserIds \cup {Absent, 3}

\* C25: disconnect(connection, user_id) for a connection that is not
\* registered under user_id (or a user_id that is no key) leaves the registry
\* as it is, and a second disconnect changes nothing after the first.
C25_DisconnectIdempotent ==
  \A c \in Conns, u \in SomeUserIds :
    LET once == disconnect(active_connections, c, u)
    IN /\ (~HasKey(active_connections, u) \/ c \notin Get(active_connections, u))
            => once = active_connections
       /\ disconnect(once, c, u) = once

\* a session has unregistered its connection while its user keeps another
\* one and a second user is registered
C25_Witness ==
  \E c \in Conns :
    /\ pc[c] \in {"closing", "closed"}
    /\ mon[c].kind = "disconnect"
    /\ HasKey(active_connections, mon[c].uid)
    /\ c \notin Get(active_connections, mon[c].uid)
    /\ DictLen(active_connections) = 2

\* C26 (as the specification states it): send_personal_message sends to
\* connections found under user_id alone; when user_id has no connection it
\* sends nothing and returns; and once it is over every connection that was
\* registered for user_id when it was called (and still is, and is open) has
\* got the frame.
C26_PersonalDeliversToAllOfUser ==
  /\ \A i \in DOMAIN personal.log :
       /\ personal.log[i].key = personal.uid
       /\ personal.log[i].frame = personal.frame
  /\ personal.at \in {"done", "raised"} /\ personal.found = {} =>
       personal.at = "done" /\ personal.log = <<>>
  /\ personal.at \in {"done", "raised"} =>
       \A t \in personal.found :
         /\ HasKey(active_connections, personal.uid)
         /\ t \in Get(active_connections, personal.uid)
         /\ alive[t]
         => \E i \in DOMAIN personal.log : personal.log[i].to = t /\ personal.log[i].ok

\* the live entries of a registry, in order
Entries(reg) == Compact(reg)

\* a step that changes the entries of the registry is the step of a session
\* that runs manager.connect (leaving "new") or manager.disconnect (leaving
\* the receive loop), and changes them as connect or disconnect does
OnlyConnectAndDisconnect ==
  Entries(active_connections') # Entries(active_connections) =>
    \E c \in Conns :
      \/ /\ pc[c] = "new" /\ pc'[c] = "recv"
         /\ Entries(active_connections')
              = Entries(connect(active_connections, c, user_id'[c]))
      \/ /\ pc[c] \in {"recv", "broadcast"} /\ pc'[c] \in {"closing", "closed"}
         /\ Entries(active_connections')
              = Entries(disconnect(active_connections, c, user_id[c]))

\* C27: active_connections is changed by connect and disconnect alone: every
\* step of a handler, of a handler's broadcast and of the endpoint's broadcast
\* leaves its entries as they are.
C27_RegistryChangedByConnectDisconnectOnly == [][OnlyConnectAndDisconnect]_vars

\* a mutating action and its broadcast are over, with three connections of
\* two users registered
C27_Witness ==
  \E c \in Conns :
    /\ Handled(c) /\ pc[c] = "recv"
    /\ Notifications(mon[c]) # {}
    /\ DictLen(active_connections) = 2
    /\ get_connection_count(active_connections) = 3

\* C28: what a caller reads from the list get_active_users() returned is
\* what it read when the list was returned, whatever connections have been
\* registered or unregistered since.
C28_ActiveUsersIsSnapshot ==
  snapshot.taken => Reading(snapshot, active_connections) = snapshot.first

\* a user was registered and another unregistered after the list was returned
C28_Witness ==
  /\ snapshot.taken
  /\ \E u \in Keys(active_connections) : u \notin Range(snapshot.first)
  /\ \E u \in Range(snapshot.first) : u \notin Keys(active_connections)

\* the sends on the requester's own connection in the record of session c
OwnSends(c) == {i \in DOMAIN mon[c].log : mon[c].log[i].to = c}

ListAfterUnregistering ==
  \A c \in Conns :
    /\ pc[c] \in {"recv", "broadcast"} /\ pc'[c] \in {"closing", "closed"}
    /\ \E i \in DOMAIN mon'[c].log : mon'[c].log[i].frame.type = "user.disconnected"
    => LET uid == user_id[c]
           siblings == Get(active_connections, uid) \ {c}
       IN \A i \in DOMAIN mon'[c].log :
            mon'[c].log[i].frame.type = "user.disconnected" =>
              LET f == mon'[c].log[i].frame
              IN /\ f.by = uid
                 /\ f.users = get_active_users(disconnect(active_connections, c, uid))
                 /\ uid \in Range(f.users) <=> siblings # {}
                 /\ Range(f.users) \ {uid} = Keys(active_connections) \ {uid}

\* once that broadcast is over, the other connections of the leaving user
\* (registered then and now, and open) have got the frame
SiblingsGotIt ==
  \A c \in Conns :
    pc[c] = "closed" /\ mon[c].left = "WebSocketDisconnect" =>
      \A d \in Registered \cap mon[c].remaining :
        user_id[d] = mon[c].uid /\ alive[d] =>
          \E i \in DOMAIN mon[c].log :
            /\ mon[c].log[i].to = d /\ mon[c].log[i].ok
            /\ mon[c].log[i].frame.type = "user.disconnected"
            /\ mon[c].uid \in Range(mon[c].log[i].frame.users)

\* C30 (as the specification states it): the active_users of a
\* user.disconnected frame is computed after the leaving connection was
\* unregistered (it names the leaving user exactly when the user has another
\* connection), and that other connection, when open, gets the frame too.
C30_DisconnectedListAfterUnregister ==
  [](SiblingsGotIt) /\ [][ListAfterUnregistering]_vars

====
